---- MODULE Spec2Model ----
(***************************************************************************)
(* The x-axis of a cartesian chart: the XAxis container and its per-tick   *)
(* XAxle leaf, in the two versions the repository holds:                   *)
(*   "tsx"  - src/lib/src/cartesian/components/XAxis.tsx                   *)
(*   "part" - src/unnamed/part_000                                         *)
(* A render of XAxis is one action; React's useMemo caches, the keyed      *)
(* XAxle instances and the matrix shared value / matrixRef are the state.  *)
(*                                                                         *)
(* Numbers.  Pixel quantities are exact rationals held as integers in      *)
(* quarter pixels (Px(n) is n pixels), so that labelWidth / 2 and          *)
(* fontSize / 4 are exact.  Tick values and scale domains are integers in  *)
(* data units.  An optional value (a prop that may be undefined, a ref     *)
(* that may be null) is a sequence of length 0 or 1.                       *)
(***************************************************************************)
EXTENDS Integers, Sequences, FiniteSets, TLC

Px(n) == 4 * n
None == <<>>
Some(v) == <<v>>
OrDefault(opt, d) == IF opt = None THEN d ELSE opt[1]
Abs(n) == IF n < 0 THEN -n ELSE n

(* ---------------------------- bounds ----------------------------------- *)
\* length of the longer explicit tickValues list
MaxTickValues == 6
\* largest tick handed to a single leaf in LeafSpec (ticks -1..MaxLeafTick)
MaxLeafTick == 5

(* ------------------------ program constants ---------------------------- *)
DEFAULT_TICK_COUNT == 5
DefaultLabelOffset == 2
\* StyleSheet.hairlineWidth: a positive, platform dependent width
HairlineWidth == 1

(* ------------------------- d3 linear scales ---------------------------- *)
\* a scale is [domain |-> <<d0, d1>>, range |-> <<r0, r1>>]; range in quarter px
LinearScale(d0, d1, r0, r1) == [domain |-> <<d0, d1>>, range |-> <<r0, r1>>]

\* scale(v): linear interpolation of the domain onto the range
Apply(scale, v) ==
  LET d0 == scale.domain[1]
      d1 == scale.domain[2]
      r0 == scale.range[1]
      r1 == scale.range[2]
  IN  r0 + ((v - d0) * (r1 - r0)) \div (d1 - d0)

\* scale.invert(p)
Invert(scale, p) ==
  LET d0 == scale.domain[1]
      d1 == scale.domain[2]
      r0 == scale.range[1]
      r1 == scale.range[2]
  IN  d0 + ((p - r0) * (d1 - d0)) \div (r1 - r0)

\* transform.rescaleX(scale): a copy whose domain is the range seen through
\* the inverse transform; a transform is [k, x, y]
RescaleX(t, scale) ==
  [scale EXCEPT !.domain =
     << Invert(scale, (scale.range[1] - t.x) \div t.k),
        Invert(scale, (scale.range[2] - t.x) \div t.k) >>]

\* new ZoomTransform(k, x, y)
ZoomTransform(k, x, y) == [k |-> k, x |-> x, y |-> y]

\* d3 tick step for an ascending domain of given span: 10^power * factor with
\* factor in {1, 2, 5, 10} chosen by the error thresholds sqrt(50), sqrt(10),
\* sqrt(2) (compared squared, in integers).  Spans below one per tick are not
\* used by the model.
TickInc(span, count) ==
  LET p10 == CASE span >= count /\ span < 10 * count -> 1
               [] span >= 10 * count /\ span < 100 * count -> 10
      e2  == span * span              \* (error * count * p10)^2
      c2  == count * count * p10 * p10
      factor == IF e2 >= 50 * c2 THEN 10
                ELSE IF e2 >= 10 * c2 THEN 5
                ELSE IF e2 >= 2 * c2 THEN 2 ELSE 1
  IN  p10 * factor

CeilDiv(a, b) == -((-a) \div b)

\* scale.ticks(count): the multiples of the step inside the domain, ascending
Ticks(scale, count) ==
  LET start == scale.domain[1]
      stop  == scale.domain[2]
  IN  IF count <= 0 THEN <<>>
      ELSE IF start = stop THEN <<start>>
      ELSE LET inc == TickInc(stop - start, count)
               i1  == CeilDiv(start, inc)
               i2  == stop \div inc
           IN  IF i2 < i1 THEN <<>>
               ELSE [i \in 1..(i2 - i1 + 1) |-> (i1 + i - 1) * inc]

(* ----------------------------- tickHelpers ----------------------------- *)
\* downsampleTicks returns its argument itself (the same array) in this case
DownsamplePassThrough(tickValues, tickCount) ==
  tickCount = 0 \/ Len(tickValues) <= tickCount

RECURSIVE EveryKth(_, _, _)
EveryKth(s, k, i) ==
  IF i > Len(s) THEN <<>>
  ELSE IF (i - 1) % k = 0 THEN <<s[i]>> \o EveryKth(s, k, i + 1)
  ELSE EveryKth(s, k, i + 1)

downsampleTicks(tickValues, tickCount) ==
  IF DownsamplePassThrough(tickValues, tickCount) THEN tickValues
  ELSE EveryKth(tickValues, Len(tickValues) \div tickCount, 1)

\* getOffsetFromAngle(deg) = sin(deg * pi / 180), as twice the sine, for the
\* angles the model uses
OffsetFromAngleTimes2(deg) ==
  CASE deg = 0 -> 0
    [] deg = 30 -> 1
    [] deg = 90 -> 2
    [] deg = -30 -> -1
    [] deg = -90 -> -2

(* ------------------------------- values -------------------------------- *)
\* an input datum handed to formatXLabel: a number, a string or undefined
NumV(n) == [t |-> "num", n |-> n, s |-> <<>>]
StrV(s) == [t |-> "str", n |-> 0, s |-> s]
UndefV == [t |-> "undef", n |-> 0, s |-> <<>>]

DigitChar(d) == <<"0", "1", "2", "3", "4", "5", "6", "7", "8", "9">>[d + 1]

RECURSIVE NatDigits(_)
NatDigits(n) ==
  IF n < 10 THEN <<DigitChar(n)>> ELSE NatDigits(n \div 10) \o <<DigitChar(n % 10)>>

\* String(v): a text is a sequence of characters
String(v) ==
  CASE v.t = "num" -> IF v.n < 0 THEN <<"-">> \o NatDigits(-v.n) ELSE NatDigits(v.n)
    [] v.t = "str" -> v.s
    [] v.t = "undef" -> <<"u", "n", "d", "e", "f", "i", "n", "e", "d">>

\* the formatXLabel prop applied: undefined is the default String; "blank" is a
\* caller's formatter returning the empty text, "mark" one that prefixes "#"
FormatXLabel(formatXLabel, v) ==
  IF formatXLabel = None THEN String(v)
  ELSE IF formatXLabel[1] = "blank" THEN <<>>
  ELSE <<"#">> \o String(v)

\* ix[tick] of a JavaScript array: undefined outside 0..length-1
IndexIx(ix, tick) ==
  LET a == OrDefault(ix, <<>>)
  IN  IF tick >= 0 /\ tick < Len(a) THEN a[tick + 1] ELSE UndefV

\* font.getGlyphWidths(font.getGlyphIDs(text)) summed; a font is
\* [size, glyphWidth] with one advance width for every glyph
GlyphWidthSum(font, text) ==
  IF font = None THEN 0 ELSE font[1].glyphWidth * Len(text)

\* font?.getSize() ?? 0
FontSize(font) == IF font = None THEN 0 ELSE font[1].size

vec(x, y) == [x |-> x, y |-> y]

(* -------------------------------- XAxle -------------------------------- *)
\* mutant of Val: the tick always taken as an index into ix
ValAlwaysIndexed(p) == IndexIx(p.ix, p.tick)

\* const val = isNumericalData ? tick : ix[tick]
Val(p) == IF p.isNumericalData THEN NumV(p.tick) ELSE IndexIx(p.ix, p.tick)

ContentX(p) == FormatXLabel(p.formatXLabel, Val(p))

LabelWidth(p) == GlyphWidthSum(p.font, ContentX(p))

LabelX(p) == Apply(p.xScale, p.tick) - LabelWidth(p) \div 2

\* the fit test of XAxis.tsx; part_000 replaces it by the constant true
CanFitLabelContent(impl, p) ==
  IF impl = "part" THEN TRUE
  ELSE /\ Apply(p.xScale, p.tick) >= p.chartBounds.left
       /\ Apply(p.xScale, p.tick) <= p.chartBounds.right
       /\ IF OrDefault(p.yAxisSide, "left") = "left"
          THEN LabelX(p) + LabelWidth(p) < p.chartBounds.right
          ELSE p.chartBounds.left < LabelX(p)

\* mutant of LabelY: the top, outset label offset towards the chart
LabelYTopOutsetInwards(p) ==
  LET axisSide == OrDefault(p.axisSide, "bottom")
      labelPosition == OrDefault(p.labelPosition, "outset")
      labelOffset == OrDefault(p.labelOffset, Px(DefaultLabelOffset))
  IN  IF axisSide = "bottom" /\ labelPosition = "outset"
        THEN p.chartBounds.bottom + labelOffset + p.fontSize
      ELSE IF axisSide = "bottom" /\ labelPosition = "inset"
        THEN Apply(p.yScale, p.y2) - labelOffset
      ELSE IF axisSide = "top" /\ labelPosition = "outset"
        THEN Apply(p.yScale, p.y1) + labelOffset
      ELSE Apply(p.yScale, p.y1) + p.fontSize + labelOffset

\* the label's vertical anchor, by axisSide and labelPosition
LabelY(p) ==
  LET axisSide == OrDefault(p.axisSide, "bottom")
      labelPosition == OrDefault(p.labelPosition, "outset")
      labelOffset == OrDefault(p.labelOffset, Px(DefaultLabelOffset))
  IN  IF axisSide = "bottom" /\ labelPosition = "outset"
        THEN p.chartBounds.bottom + labelOffset + p.fontSize
      ELSE IF axisSide = "bottom" /\ labelPosition = "inset"
        THEN Apply(p.yScale, p.y2) - labelOffset
      ELSE IF axisSide = "top" /\ labelPosition = "outset"
        THEN Apply(p.yScale, p.y1) - labelOffset
      ELSE Apply(p.yScale, p.y1) + p.fontSize + labelOffset

\* (labelWidth / 2) * getOffsetFromAngle(labelRotate)
HalfWidthTimesOffset(p) ==
  ((LabelWidth(p) \div 2) * OffsetFromAngleTimes2(p.labelRotate[1])) \div 2

\* mutant of Rotation: the origin of a top axis not raised by fontSize / 4
RotationTopOriginOnBaseline(p) ==
  LET axisSide == OrDefault(p.axisSide, "bottom")
      labelPosition == OrDefault(p.labelPosition, "outset")
      up == \/ (axisSide = "bottom" /\ labelPosition = "inset")
            \/ (axisSide = "top" /\ labelPosition = "outset")
  IN  IF p.labelRotate = None \/ p.labelRotate = Some(0)
        THEN [origin |-> None, rotateOffset |-> 0]
      ELSE [origin |-> Some(vec(LabelX(p) + LabelWidth(p) \div 2, LabelY(p))),
            rotateOffset |-> IF up THEN -Abs(HalfWidthTimesOffset(p))
                             ELSE Abs(HalfWidthTimesOffset(p))]

\* { origin, rotateOffset } for the label rotation
Rotation(p) ==
  LET axisSide == OrDefault(p.axisSide, "bottom")
      labelPosition == OrDefault(p.labelPosition, "outset")
  IN  IF p.labelRotate = None \/ p.labelRotate = Some(0)
        THEN [origin |-> None, rotateOffset |-> 0]
      ELSE IF axisSide = "bottom" /\ labelPosition = "outset"
        THEN [origin |-> Some(vec(LabelX(p) + LabelWidth(p) \div 2, LabelY(p))),
              rotateOffset |-> Abs(HalfWidthTimesOffset(p))]
      ELSE IF axisSide = "bottom" /\ labelPosition = "inset"
        THEN [origin |-> Some(vec(LabelX(p) + LabelWidth(p) \div 2, LabelY(p))),
              rotateOffset |-> -Abs(HalfWidthTimesOffset(p))]
      ELSE IF axisSide = "top" /\ labelPosition = "inset"
        THEN [origin |-> Some(vec(LabelX(p) + LabelWidth(p) \div 2,
                                  LabelY(p) - p.fontSize \div 4)),
              rotateOffset |-> Abs(HalfWidthTimesOffset(p))]
      ELSE [origin |-> Some(vec(LabelX(p) + LabelWidth(p) \div 2,
                                LabelY(p) - p.fontSize \div 4)),
            rotateOffset |-> -Abs(HalfWidthTimesOffset(p))]

\* the dependency list of the p1 / p2 memos has changed since the instance's
\* previous render: [tick] in XAxis.tsx (tick is the instance's key, so never),
\* [tick, xScale, y2, yScale] and [tick, xScale, y1, yScale] in part_000
P1DepsChanged(impl, p, q) ==
  IF impl = "tsx" THEN p.tick # q.tick
  ELSE p.tick # q.tick \/ p.xScale # q.xScale \/ p.y2 # q.y2 \/ p.yScale # q.yScale

P2DepsChanged(impl, p, q) ==
  IF impl = "tsx" THEN p.tick # q.tick
  ELSE p.tick # q.tick \/ p.xScale # q.xScale \/ p.y1 # q.y1 \/ p.yScale # q.yScale

\* useMemo(() => vec(xScale(tick), yScale(y2)), deps); prev is the instance's
\* previous render (its props and memo cells), None when it mounts
P1(impl, p, prev) ==
  IF prev = None \/ P1DepsChanged(impl, p, prev[1].props)
  THEN vec(Apply(p.xScale, p.tick), Apply(p.yScale, p.y2))
  ELSE prev[1].p1

P2(impl, p, prev) ==
  IF prev = None \/ P2DepsChanged(impl, p, prev[1].props)
  THEN vec(Apply(p.xScale, p.tick), Apply(p.yScale, p.y1))
  ELSE prev[1].p2

\* mutant of LineElement: lineWidth >= 0 in place of lineWidth > 0
LineElementAtZeroWidth(impl, p, prev) ==
  IF OrDefault(p.lineWidth, HairlineWidth) >= 0
  THEN Some([points |-> <<P1(impl, p, prev), P2(impl, p, prev)>>,
             strokeWidth |-> OrDefault(p.lineWidth, HairlineWidth),
             pathEffect |-> p.linePathEffect])
  ELSE None

\* lineWidth > 0 ? <Group><Points points={[p1, p2]} ...>{linePathEffect}</Points></Group> : null
LineElement(impl, p, prev) ==
  IF OrDefault(p.lineWidth, HairlineWidth) > 0
  THEN Some([points |-> <<P1(impl, p, prev), P2(impl, p, prev)>>,
             strokeWidth |-> OrDefault(p.lineWidth, HairlineWidth),
             pathEffect |-> p.linePathEffect])
  ELSE None

\* font && labelWidth && canFitLabelContent ? <Group translateY><Text .../></Group> : null
\* rotate is (pi / 180) * (labelRotate ?? 0), held as the rational multiple of pi
LabelElement(impl, p) ==
  IF p.font # None /\ LabelWidth(p) # 0 /\ CanFitLabelContent(impl, p)
  THEN Some([translateY |-> Rotation(p).rotateOffset,
             rotate |-> [piTimes |-> OrDefault(p.labelRotate, 0), over |-> 180],
             origin |-> Rotation(p).origin,
             text |-> ContentX(p),
             y |-> LabelY(p),
             x |-> LabelX(p)])
  ELSE None

\* the constants one render of XAxle computes before it draws
XAxleLocals(impl, p) ==
  [val |-> Val(p), contentX |-> ContentX(p), labelWidth |-> LabelWidth(p),
   labelX |-> LabelX(p), canFitLabelContent |-> CanFitLabelContent(impl, p),
   labelY |-> LabelY(p)]

\* one render of an XAxle instance: its memo cells and what it draws
XAxle(impl, p, prev) ==
  [p1 |-> P1(impl, p, prev),
   p2 |-> P2(impl, p, prev),
   line |-> LineElement(impl, p, prev),
   label |-> LabelElement(impl, p)]

(* -------------------------------- XAxis -------------------------------- *)
VARIABLES
  impl,              \* which version of the component is running
  props,             \* the props of the latest render of XAxis
  xTicksNormalized,  \* the tick list of the latest render (memo cell in part_000)
  xScale,            \* the positioning scale of the latest render (memo cell in part_000)
  xAxisNodes,        \* the memoised XAxle elements: the props of each, in order
  leaves,            \* the mounted XAxle instances by key (tick)
  matrix,            \* the matrix prop: None, or the shared value's current value
  matrixRef,         \* matrixRef.current (part_000)
  renderTransform,   \* the pan/zoom transform that existed when XAxis last rendered
  leafImpl,          \* LeafSpec: the version of the single leaf
  leafProps,         \* LeafSpec: the props of the single leaf
  leafOut            \* LeafSpec: None, or the leaf's render

vars == << impl, props, xTicksNormalized, xScale, xAxisNodes, leaves,
           matrix, matrixRef, renderTransform, leafImpl, leafProps, leafOut >>
axisVars == << impl, props, xTicksNormalized, xScale, xAxisNodes, leaves,
               matrix, matrixRef, renderTransform >>
leafVars == << leafImpl, leafProps, leafOut >>

\* tickCount = DEFAULT_TICK_COUNT
TickCount(pr) == OrDefault(pr.tickCount, DEFAULT_TICK_COUNT)

\* const [y1 = 0, y2 = 0] = yScale.domain()
Y1(yScale) == IF Len(yScale.domain) >= 1 THEN yScale.domain[1] ELSE 0
Y2(yScale) == IF Len(yScale.domain) >= 2 THEN yScale.domain[2] ELSE 0

\* a Skia Matrix4 is 16 numbers, row major; entry i of the source is m[i + 1]
Entry(m, i) == m[i + 1]

\* the positioning scale computed from scratch:
\*   XAxis.tsx: zoom ? zoom.rescaleX(xScaleProp) : xScaleProp
\*   part_000:  matrixRef.current ? new ZoomTransform(m[0], m[3], m[7]).rescaleX(xScaleProp) : xScaleProp
ComputeXScale(im, pr, ref) ==
  IF im = "tsx"
  THEN IF pr.zoom # None THEN RescaleX(pr.zoom[1], pr.xScaleProp) ELSE pr.xScaleProp
  ELSE IF ref # None
       THEN RescaleX(ZoomTransform(Entry(ref[1], 0), Entry(ref[1], 3), Entry(ref[1], 7)),
                     pr.xScaleProp)
       ELSE pr.xScaleProp

\* the tick list computed from scratch; xs is the positioning scale of the render
ComputeTicks(im, pr, xs) ==
  IF pr.tickValues # None THEN downsampleTicks(pr.tickValues[1], TickCount(pr))
  ELSE IF im = "tsx" /\ pr.enableRescaling THEN Ticks(xs, TickCount(pr))
  ELSE Ticks(pr.xScaleProp, TickCount(pr))

\* Object.is on a prop that holds an object: the value differs, or the parent
\* handed over a new object of the same value (fresh)
TickValuesChanged(old, new, fresh) ==
  old.tickValues # new.tickValues \/ (fresh.tickValues /\ new.tickValues # None)
XScalePropChanged(old, new, fresh) ==
  old.xScaleProp # new.xScaleProp \/ fresh.xScaleProp

\* the tick list is the tickValues array itself
TicksAreTickValues(pr) ==
  pr.tickValues # None /\ DownsamplePassThrough(pr.tickValues[1], TickCount(pr))

\* mutant of TicksDepsChanged: tickCount left out of the dependency list
TicksDepsWithoutTickCount(im, old, new, fresh) ==
  IF im = "tsx" THEN TRUE
  ELSE \/ TickValuesChanged(old, new, fresh)
       \/ XScalePropChanged(old, new, fresh)

\* part_000: useMemo(..., [tickValues, tickCount, xScaleProp]); XAxis.tsx computes
\* the list in every render
TicksDepsChanged(im, old, new, fresh) ==
  IF im = "tsx" THEN TRUE
  ELSE \/ TickValuesChanged(old, new, fresh)
       \/ TickCount(old) # TickCount(new)
       \/ XScalePropChanged(old, new, fresh)

\* xTicksNormalized is another array than in the previous render
TicksIdentityChanged(im, old, new, fresh) ==
  /\ TicksDepsChanged(im, old, new, fresh)
  /\ ~ ( /\ TicksAreTickValues(old)
         /\ TicksAreTickValues(new)
         /\ ~ TickValuesChanged(old, new, fresh) )

\* part_000: useMemo(..., [xScaleProp, xTicksNormalized]); XAxis.tsx computes the
\* scale in every render
XScaleDepsChanged(im, old, new, fresh) ==
  IF im = "tsx" THEN TRUE
  ELSE XScalePropChanged(old, new, fresh) \/ TicksIdentityChanged(im, old, new, fresh)

\* the dependency list of the xAxisNodes memo
NodesDepsChanged(im, old, new, fresh) ==
  IF im = "tsx"
  THEN \/ TicksIdentityChanged(im, old, new, fresh)
       \/ FontSize(old.font) # FontSize(new.font)
       \/ Y1(old.yScale) # Y1(new.yScale)
       \/ Y2(old.yScale) # Y2(new.yScale)
  ELSE \/ TicksIdentityChanged(im, old, new, fresh)
       \/ old.font # new.font \/ (fresh.rest /\ new.font # None)
       \/ XScaleDepsChanged(im, old, new, fresh)
       \/ Y1(old.yScale) # Y1(new.yScale)
       \/ Y2(old.yScale) # Y2(new.yScale)
       \/ FontSize(old.font) # FontSize(new.font)
       \/ old.axisSide # new.axisSide
       \/ old.formatXLabel # new.formatXLabel
       \/ old.labelOffset # new.labelOffset
       \/ old.labelPosition # new.labelPosition
       \/ old.lineWidth # new.lineWidth
       \/ old.yAxisSide # new.yAxisSide
       \/ old.isNumericalData # new.isNumericalData
       \/ old.chartBounds # new.chartBounds \/ fresh.rest
       \/ old.ix # new.ix

\* the props of the XAxle element made for one tick
XAxleProps(pr, xs, tick) ==
  [tick |-> tick, xScale |-> xs, yScale |-> pr.yScale,
   y1 |-> Y1(pr.yScale), y2 |-> Y2(pr.yScale),
   font |-> pr.font, fontSize |-> FontSize(pr.font),
   axisSide |-> pr.axisSide, yAxisSide |-> pr.yAxisSide,
   formatXLabel |-> pr.formatXLabel, labelOffset |-> pr.labelOffset,
   labelPosition |-> pr.labelPosition, labelRotate |-> pr.labelRotate,
   lineWidth |-> pr.lineWidth, isNumericalData |-> pr.isNumericalData,
   chartBounds |-> pr.chartBounds, ix |-> pr.ix,
   linePathEffect |-> pr.linePathEffect]

\* xTicksNormalized.map((tick) => <XAxle ... key={`x-tick-${tick}`} />)
MakeNodes(pr, xs, ticks) == [i \in 1..Len(ticks) |-> XAxleProps(pr, xs, ticks[i])]

NodeTicks(nodes) == {nodes[i].tick : i \in 1..Len(nodes)}

NodeOf(nodes, t) == nodes[CHOOSE i \in 1..Len(nodes) : nodes[i].tick = t]

\* React reconciles the children by key: an instance whose key stays keeps its
\* memo cells, a new key mounts, a missing key unmounts
Reconcile(im, nodes, oldNodes, old) ==
  [t \in NodeTicks(nodes) |->
     XAxle(im, NodeOf(nodes, t),
           IF t \in DOMAIN old
           THEN Some([props |-> NodeOf(oldNodes, t), p1 |-> old[t].p1, p2 |-> old[t].p2])
           ELSE None)]

\* the transform that exists at a render: the zoom prop, or the one held by the
\* matrix shared value
CurrentTransform(im, pr, mx) ==
  IF im = "tsx" THEN pr.zoom
  ELSE IF mx = None THEN None
  ELSE Some(ZoomTransform(Entry(mx[1], 0), Entry(mx[1], 3), Entry(mx[1], 7)))

\* One render of XAxis, after the mounting one, with props new.  An unchanged
\* xAxisNodes array makes React skip the leaves.
Render(new, fresh) ==
  LET ticks == IF TicksDepsChanged(impl, props, new, fresh)
               THEN ComputeTicks(impl, new, ComputeXScale(impl, new, matrixRef))
               ELSE xTicksNormalized
      xs    == IF XScaleDepsChanged(impl, props, new, fresh)
               THEN ComputeXScale(impl, new, matrixRef)
               ELSE xScale
      again == NodesDepsChanged(impl, props, new, fresh)
      nodes == IF again THEN MakeNodes(new, xs, ticks) ELSE xAxisNodes
  IN  /\ props' = new
      /\ xTicksNormalized' = ticks
      /\ xScale' = xs
      /\ xAxisNodes' = nodes
      /\ leaves' = IF again THEN Reconcile(impl, nodes, xAxisNodes, leaves) ELSE leaves
      /\ renderTransform' = CurrentTransform(impl, new, matrix)
      /\ UNCHANGED << impl, matrix, matrixRef >>

(* ------------------------- what the chart passes ------------------------ *)
\* two data ranges on an 80 px wide chart
XScales == {LinearScale(0, 20, 0, Px(80)), LinearScale(10, 30, 0, Px(80))}
BaseXScale == LinearScale(0, 20, 0, Px(80))

\* the same domain on two heights, and a second domain
YScales == {LinearScale(0, 10, Px(60), 0), LinearScale(0, 10, Px(120), 0), LinearScale(0, 20, Px(60), 0)}
BaseYScale == LinearScale(0, 10, Px(60), 0)

\* zoom in by two about the right half of the chart
Zooms == {ZoomTransform(2, -Px(80), 0)}

\* the Matrix4 of a transform: scale in entries 0 and 5, translation in 3 and 7
Matrix4(t, sy) == << t.k, 0, 0, t.x,   0, sy, 0, t.y,   0, 0, 1, 0,   0, 0, 0, 1 >>
\* the identity, the zoom, and a pan left by 40 px
Matrices == {Matrix4(ZoomTransform(1, 0, 0), 1), Matrix4(ZoomTransform(2, -Px(80), 0), 1),
             Matrix4(ZoomTransform(1, -Px(40), 0), 1)}

TickValueList(n) == [i \in 1..n |-> 5 * (i - 1)]
TickValueLists == {TickValueList(3), TickValueList(MaxTickValues)}

ChartFont == [size |-> Px(12), glyphWidth |-> Px(6)]
ChartBounds == [left |-> 0, right |-> Px(80), top |-> 0, bottom |-> Px(60)]

TickCounts == {None, Some(2)}
TickValuesOptions == {None} \cup {Some(l) : l \in TickValueLists}
ZoomOptions == {None} \cup {Some(z) : z \in Zooms}
LabelRotates == {None, Some(90)}
LineWidths == {None, Some(0)}
PathEffects == {None, Some("dash")}
Fonts == {None, Some(ChartFont)}

\* the props every specification starts from
BaseProps ==
  [xScaleProp |-> BaseXScale, yScale |-> BaseYScale,
   tickCount |-> None, tickValues |-> None, font |-> Some(ChartFont),
   enableRescaling |-> FALSE, zoom |-> None,
   axisSide |-> None, yAxisSide |-> None, formatXLabel |-> None,
   labelOffset |-> None, labelPosition |-> None, labelRotate |-> None,
   lineWidth |-> None, isNumericalData |-> TRUE,
   chartBounds |-> ChartBounds, ix |-> None, linePathEffect |-> None]

\* Spec: the horizontal scale, the transform and the tick list vary
ScaleProps(im) ==
  {[BaseProps EXCEPT !.xScaleProp = s, !.tickCount = c, !.tickValues = tv,
                     !.enableRescaling = e, !.zoom = z] :
     s \in XScales, c \in TickCounts, tv \in TickValuesOptions,
     e \in (IF im = "tsx" THEN BOOLEAN ELSE {FALSE}),
     z \in (IF im = "tsx" THEN ZoomOptions ELSE {None})}

\* StyleSpec: the vertical scale, line width, label rotation, path effect, font
\* and tick list vary
StyleProps ==
  {[BaseProps EXCEPT !.yScale = y, !.lineWidth = w, !.labelRotate = r,
                     !.linePathEffect = e, !.font = f, !.tickValues = tv] :
     y \in YScales, w \in LineWidths, r \in LabelRotates, e \in PathEffects,
     f \in Fonts, tv \in TickValuesOptions}

NoFresh == [tickValues |-> FALSE, xScaleProp |-> FALSE, rest |-> FALSE]
AllFresh == [tickValues |-> TRUE, xScaleProp |-> TRUE, rest |-> TRUE]

LeafScale == LinearScale(0, 4, 0, Px(40))
LeafYScale == LinearScale(0, 10, Px(50), 0)
LeafBounds == [left |-> 0, right |-> Px(40), top |-> 0, bottom |-> Px(50)]
LeafIx == << StrV(<<"a">>), StrV(<<"b", "c">>) >>
Sides(a, b) == {None, Some(a), Some(b)}

\* fontSize is what XAxis hands down: font?.getSize() ?? 0
LeafInputs ==
  {[p EXCEPT !.fontSize = FontSize(p.font)] : p \in
  [tick : (-1)..MaxLeafTick, xScale : {LeafScale}, yScale : {LeafYScale},
   y1 : {Y1(LeafYScale)}, y2 : {Y2(LeafYScale)},
   font : Fonts, fontSize : {0},
   axisSide : Sides("bottom", "top"), yAxisSide : Sides("left", "right"),
   formatXLabel : {None, Some("blank")},
   labelOffset : {None, Some(Px(5))},
   labelPosition : Sides("outset", "inset"),
   labelRotate : {None, Some(0), Some(30), Some(-90)},
   lineWidth : {None},
   isNumericalData : BOOLEAN,
   chartBounds : {LeafBounds}, ix : {None, Some(LeafIx)},
   linePathEffect : {None}]}

BaseLeaf == XAxleProps(BaseProps, BaseXScale, 0)

(* ------------------------------ the axis ------------------------------- *)
\* the state after the mounting render with props pr: useRef(null), every
\* memo computed, every leaf mounted
Mounted(pr) ==
  /\ props = pr
  /\ matrixRef = None
  /\ xScale = ComputeXScale(impl, props, None)
  /\ xTicksNormalized = ComputeTicks(impl, props, xScale)
  /\ xAxisNodes = MakeNodes(props, xScale, xTicksNormalized)
  /\ leaves = Reconcile(impl, xAxisNodes, << >>, << >>)
  /\ renderTransform = CurrentTransform(impl, props, matrix)

NoLeaf == leafImpl = "tsx" /\ leafProps = BaseLeaf /\ leafOut = None

Init ==
  /\ impl \in {"tsx", "part"}
  /\ matrix \in (IF impl = "tsx" THEN {None} ELSE {None} \cup {Some(m) : m \in Matrices})
  /\ \E pr \in ScaleProps(impl) : Mounted(pr)
  /\ NoLeaf

\* the chart renders XAxis again with one prop changed
SetXScale ==
  \E s \in XScales :
    /\ Render([props EXCEPT !.xScaleProp = s], [NoFresh EXCEPT !.xScaleProp = TRUE])
    /\ UNCHANGED leafVars

SetYScale ==
  \E y \in YScales :
    /\ y # props.yScale
    /\ Render([props EXCEPT !.yScale = y], NoFresh)
    /\ UNCHANGED leafVars

SetZoom ==
  \E z \in ZoomOptions :
    /\ impl = "tsx"
    /\ z # props.zoom
    /\ Render([props EXCEPT !.zoom = z], NoFresh)
    /\ UNCHANGED leafVars

SetEnableRescaling ==
  /\ impl = "tsx"
  /\ Render([props EXCEPT !.enableRescaling = ~ props.enableRescaling], NoFresh)
  /\ UNCHANGED leafVars

SetTickValues ==
  \E tv \in TickValuesOptions :
    /\ Render([props EXCEPT !.tickValues = tv], [NoFresh EXCEPT !.tickValues = TRUE])
    /\ UNCHANGED leafVars

SetTickCount ==
  \E c \in TickCounts :
    /\ c # props.tickCount
    /\ Render([props EXCEPT !.tickCount = c], NoFresh)
    /\ UNCHANGED leafVars

SetLineWidth ==
  \E w \in LineWidths :
    /\ w # props.lineWidth
    /\ Render([props EXCEPT !.lineWidth = w], NoFresh)
    /\ UNCHANGED leafVars

SetLabelRotate ==
  \E r \in LabelRotates :
    /\ r # props.labelRotate
    /\ Render([props EXCEPT !.labelRotate = r], NoFresh)
    /\ UNCHANGED leafVars

SetLinePathEffect ==
  \E e \in PathEffects :
    /\ e # props.linePathEffect
    /\ Render([props EXCEPT !.linePathEffect = e], NoFresh)
    /\ UNCHANGED leafVars

SetFont ==
  \E f \in Fonts :
    /\ f # props.font
    /\ Render([props EXCEPT !.font = f], NoFresh)
    /\ UNCHANGED leafVars

\* the chart renders again with the same props: the very same objects, or
\* objects built anew with the same values
Rerender ==
  \E f \in {NoFresh, AllFresh} :
    /\ Render(props, f)
    /\ UNCHANGED leafVars

\* the pan/zoom gesture writes the shared value (UI thread)
MatrixUpdate ==
  \E m \in Matrices :
    /\ impl = "part"
    /\ matrix # None
    /\ matrix # Some(m)
    /\ matrix' = Some(m)
    /\ UNCHANGED << impl, props, xTicksNormalized, xScale, xAxisNodes, leaves,
                    matrixRef, renderTransform >>
    /\ UNCHANGED leafVars

\* useAnimatedReaction(() => matrix?.value, () => (matrixRef.current = matrix?.value))
Reaction ==
  /\ impl = "part"
  /\ matrixRef # matrix
  /\ matrixRef' = matrix
  /\ UNCHANGED << impl, props, xTicksNormalized, xScale, xAxisNodes, leaves,
                  matrix, renderTransform >>
  /\ UNCHANGED leafVars

Next ==
  \/ SetXScale
  \/ SetZoom
  \/ SetEnableRescaling
  \/ SetTickValues
  \/ SetTickCount
  \/ Rerender
  \/ MatrixUpdate
  \/ Reaction

Spec == Init /\ [][Next]_vars

StyleInit ==
  /\ impl \in {"tsx", "part"}
  /\ matrix = None
  /\ \E pr \in StyleProps : Mounted(pr)
  /\ NoLeaf

StyleNext ==
  \/ SetYScale
  \/ SetLineWidth
  \/ SetLabelRotate
  \/ SetLinePathEffect
  \/ SetFont
  \/ SetTickValues
  \/ Rerender

StyleSpec == StyleInit /\ [][StyleNext]_vars

(* ---------------------------- a single leaf ---------------------------- *)
LeafInit ==
  /\ impl = "tsx"
  /\ matrix = None
  /\ Mounted(BaseProps)
  /\ leafImpl \in {"tsx", "part"}
  /\ leafProps \in LeafInputs
  /\ leafOut = None

\* the leaf mounts: its first render
LeafRender ==
  /\ leafOut = None
  /\ leafOut' = Some([locals |-> XAxleLocals(leafImpl, leafProps),
                       drawn |-> XAxle(leafImpl, leafProps, None)])
  /\ UNCHANGED << leafImpl, leafProps >>
  /\ UNCHANGED axisVars

LeafNext == LeafRender

LeafSpec == LeafInit /\ [][LeafNext]_vars

(* ------------------------------- claims -------------------------------- *)
\* the ticks of the emitted leaves, in order
NodeTickList == [i \in 1..Len(xAxisNodes) |-> xAxisNodes[i].tick]

\* the leaves on screen, in order
Display == [i \in 1..Len(xAxisNodes) |-> leaves[xAxisNodes[i].tick]]

\* the xScale prop seen through the zoom prop
ZoomedProp ==
  IF props.zoom = None THEN props.xScaleProp ELSE RescaleX(props.zoom[1], props.xScaleProp)

\* C1 as stated: the rendered tick list is downsampleTicks(tickValues, tickCount)
\* when tickValues is supplied (tickCount defaulting to DEFAULT_TICK_COUNT), and
\* otherwise ticks(tickCount) of the very scale that positions the ticks.
C1_TicksFromPositioningScale ==
  NodeTickList =
    IF props.tickValues # None
    THEN downsampleTicks(props.tickValues[1], OrDefault(props.tickCount, DEFAULT_TICK_COUNT))
    ELSE Ticks(xScale, OrDefault(props.tickCount, DEFAULT_TICK_COUNT))

\* C1 amended: the rendered tick list is downsampleTicks(tickValues, tickCount)
\* when tickValues is supplied, whatever the transform; otherwise it is
\* ticks(tickCount) of the zoom-rescaled scale only in XAxis.tsx with
\* enableRescaling set, and ticks(tickCount) of the unmodified xScale prop in
\* every other case (enableRescaling unset, and always in part_000).
C1_TickListChoice ==
  NodeTickList =
    IF props.tickValues # None
    THEN downsampleTicks(props.tickValues[1], OrDefault(props.tickCount, DEFAULT_TICK_COUNT))
    ELSE IF impl = "tsx" /\ props.enableRescaling
    THEN Ticks(ZoomedProp, OrDefault(props.tickCount, DEFAULT_TICK_COUNT))
    ELSE Ticks(props.xScaleProp, OrDefault(props.tickCount, DEFAULT_TICK_COUNT))

\* C1 witness: a zoomed render without tickValues whose ticks come from the
\* unmodified prop while the leaves are positioned by the rescaled scale
C1_Witness ==
  /\ props.tickValues = None
  /\ xScale # props.xScaleProp
  /\ NodeTickList = Ticks(props.xScaleProp, DEFAULT_TICK_COUNT)
  /\ NodeTickList # Ticks(xScale, DEFAULT_TICK_COUNT)
  /\ \E i \in 1..Len(xAxisNodes) : xAxisNodes[i].xScale = xScale

\* C2: XAxis shows exactly one leaf per element of the normalised tick list, in
\* order, and a leaf draws one gridline segment exactly when its lineWidth
\* (hairline when not given) is positive, whether or not its label is drawn.
C2_OneLeafPerTick ==
  /\ NodeTickList = xTicksNormalized
  /\ NodeTickList =
       IF props.tickValues # None
       THEN downsampleTicks(props.tickValues[1], OrDefault(props.tickCount, DEFAULT_TICK_COUNT))
       ELSE Ticks(props.xScaleProp, OrDefault(props.tickCount, DEFAULT_TICK_COUNT))
  /\ DOMAIN leaves = {xTicksNormalized[i] : i \in 1..Len(xTicksNormalized)}
  /\ \A i \in 1..Len(xAxisNodes) :
       LET w == IF xAxisNodes[i].lineWidth = None THEN HairlineWidth
                ELSE xAxisNodes[i].lineWidth[1]
       IN  /\ (w > 0) => /\ Display[i].line # None
                         /\ Len(Display[i].line[1].points) = 2
           /\ (w <= 0) => Display[i].line = None

\* C2 witness: a leaf that draws its gridline and no label beside a leaf that
\* draws both
C2_Witness ==
  /\ \E i \in 1..Len(xAxisNodes) : Display[i].line # None /\ Display[i].label = None
  /\ \E i \in 1..Len(xAxisNodes) : Display[i].line # None /\ Display[i].label # None
  /\ props.font # None

\* C3 as stated: a label is drawn only if its tick lies inside the chart bounds
\* and the label fits on the side of the y axis, a font is supplied and the
\* measured width is not zero.
C3_LabelOnlyIfItFits ==
  (leafOut # None /\ leafOut[1].drawn.label # None) =>
    LET x == Apply(leafProps.xScale, leafProps.tick)
        w == leafOut[1].locals.labelWidth
        labelX == leafOut[1].drawn.label[1].x
    IN  /\ x >= leafProps.chartBounds.left
        /\ x <= leafProps.chartBounds.right
        /\ IF leafProps.yAxisSide \in {None, Some("left")}
           THEN labelX + w < leafProps.chartBounds.right
           ELSE leafProps.chartBounds.left < labelX
        /\ leafProps.font # None
        /\ w # 0

\* C4 as stated: the gridline of every displayed tick t runs from
\* (xScale(t), yScale(y2)) to (xScale(t), yScale(y1)) with the scales and the
\* y domain of the latest render.
C4_GridlineOfLatestRender ==
  \A t \in DOMAIN leaves :
    /\ leaves[t].p1 = vec(Apply(xScale, t), Apply(props.yScale, Y2(props.yScale)))
    /\ leaves[t].p2 = vec(Apply(xScale, t), Apply(props.yScale, Y1(props.yScale)))
    /\ leaves[t].line # None => leaves[t].line[1].points = <<leaves[t].p1, leaves[t].p2>>

\* C5 as stated: the scale that positions gridlines and labels is the xScale
\* prop rescaled by the transform that exists at the render, and the
\* unmodified prop only when there is none.
C5_ScaleFollowsTransform ==
  LET expected == IF renderTransform = None THEN props.xScaleProp
                  ELSE RescaleX(renderTransform[1], props.xScaleProp)
  IN  /\ xScale = expected
      /\ \A i \in 1..Len(xAxisNodes) :
           /\ xAxisNodes[i].xScale = expected
           /\ Display[i].p1.x = Apply(expected, xAxisNodes[i].tick)

\* C6 as stated: the rotation, origin and offset of every drawn label and the
\* path effect of every gridline are those of the labelRotate and
\* linePathEffect props of the latest render.
C6_StyleOfLatestRender ==
  \A i \in 1..Len(xAxisNodes) :
    LET now == XAxleProps(props, xScale, xAxisNodes[i].tick)
    IN  /\ Display[i].label # None =>
             /\ Display[i].label[1].rotate = [piTimes |-> OrDefault(props.labelRotate, 0), over |-> 180]
             /\ Display[i].label[1].origin = Rotation(now).origin
             /\ Display[i].label[1].translateY = Rotation(now).rotateOffset
        /\ Display[i].line # None => Display[i].line[1].pathEffect = props.linePathEffect

\* C9 as stated: every drawn label is centred on its own tick's gridline, and
\* the gridline is vertical.
C9_LabelCentredOnGridline ==
  \A i \in 1..Len(xAxisNodes) :
    (Display[i].label # None /\ Display[i].line # None) =>
      LET w == GlyphWidthSum(xAxisNodes[i].font, Display[i].label[1].text)
          pts == Display[i].line[1].points
      IN  /\ pts[1].x = pts[2].x
          /\ Display[i].label[1].x + w \div 2 = pts[1].x

\* the leaf's props with the defaults of XAxle applied
LeafAxisSide == IF leafProps.axisSide = None THEN "bottom" ELSE leafProps.axisSide[1]
LeafLabelPosition ==
  IF leafProps.labelPosition = None THEN "outset" ELSE leafProps.labelPosition[1]
LeafLabelOffset ==
  IF leafProps.labelOffset = None THEN Px(2) ELSE leafProps.labelOffset[1]
LeafY1 == Apply(leafProps.yScale, leafProps.y1)
LeafY2 == Apply(leafProps.yScale, leafProps.y2)

\* C7: labelY is chartBounds.bottom + labelOffset + fontSize for bottom/outset,
\* yScale(y2) - labelOffset for bottom/inset, yScale(y1) - labelOffset for
\* top/outset and yScale(y1) + fontSize + labelOffset for top/inset, with
\* axisSide defaulting to "bottom", labelPosition to "outset" and labelOffset
\* to 2; exactly one case applies, and the value does not depend on the tick.
C7_LabelY ==
  leafOut # None =>
    LET y == leafOut[1].locals.labelY
        cases == << LeafAxisSide = "bottom" /\ LeafLabelPosition = "outset",
                    LeafAxisSide = "bottom" /\ LeafLabelPosition = "inset",
                    LeafAxisSide = "top" /\ LeafLabelPosition = "outset",
                    LeafAxisSide = "top" /\ LeafLabelPosition = "inset" >>
    IN  /\ Cardinality({i \in 1..4 : cases[i]}) = 1
        /\ cases[1] => y = leafProps.chartBounds.bottom + LeafLabelOffset + leafProps.fontSize
        /\ cases[2] => y = LeafY2 - LeafLabelOffset
        /\ cases[3] => y = LeafY1 - LeafLabelOffset
        /\ cases[4] => y = LeafY1 + leafProps.fontSize + LeafLabelOffset
        /\ leafOut[1].drawn.label # None => leafOut[1].drawn.label[1].y = y

\* C7 witness: a drawn label of a top, inset axis with the default offset
C7_Witness ==
  /\ leafOut # None
  /\ leafOut[1].drawn.label # None
  /\ leafProps.axisSide = Some("top")
  /\ leafProps.labelPosition = Some("inset")
  /\ leafProps.labelOffset = None
  /\ leafOut[1].drawn.label[1].y = LeafY1 + Px(12) + Px(2)

\* C8: without labelRotate (undefined or 0) the origin is undefined and the
\* offset 0; otherwise the origin is (xScale(tick), labelY) on a bottom axis
\* and (xScale(tick), labelY - fontSize / 4) on a top axis, and the offset is
\* |(labelWidth / 2) * getOffsetFromAngle(labelRotate)|, downwards (>= 0) for
\* bottom/outset and top/inset and upwards (<= 0) for bottom/inset and
\* top/outset.
C8_RotationPlacement ==
  (leafOut # None /\ leafOut[1].drawn.label # None) =>
    LET label == leafOut[1].drawn.label[1]
        w == leafOut[1].locals.labelWidth
        down == \/ (LeafAxisSide = "bottom" /\ LeafLabelPosition = "outset")
                \/ (LeafAxisSide = "top" /\ LeafLabelPosition = "inset")
    IN  IF leafProps.labelRotate = None \/ leafProps.labelRotate[1] = 0
        THEN label.origin = None /\ label.translateY = 0
        ELSE /\ label.origin # None
             /\ label.origin[1].x = Apply(leafProps.xScale, leafProps.tick)
             /\ label.origin[1].x = label.x + w \div 2
             /\ label.origin[1].y =
                  IF LeafAxisSide = "bottom" THEN label.y
                  ELSE label.y - leafProps.fontSize \div 4
             /\ 4 * Abs(label.translateY) =
                  Abs(w * OffsetFromAngleTimes2(leafProps.labelRotate[1]))
             /\ down => label.translateY >= 0
             /\ ~ down => label.translateY <= 0

\* C8 witness: a label rotated by -90 degrees on a top, inset axis, pushed down
C8_Witness ==
  /\ leafOut # None
  /\ leafOut[1].drawn.label # None
  /\ leafProps.labelRotate = Some(-90)
  /\ leafProps.axisSide = Some("top")
  /\ leafProps.labelPosition = Some("inset")
  /\ leafOut[1].drawn.label[1].translateY > 0
  /\ leafOut[1].drawn.label[1].origin # None

\* the value the label text is made from, by the rule of C10
LeafExpectedVal ==
  IF leafProps.isNumericalData THEN NumV(leafProps.tick)
  ELSE IF /\ leafProps.ix # None
          /\ leafProps.tick >= 0
          /\ leafProps.tick < Len(leafProps.ix[1])
       THEN leafProps.ix[1][leafProps.tick + 1]
       ELSE UndefV

\* the text rule of C10: formatXLabel(t) for numerical data, formatXLabel(ix[t])
\* otherwise, formatXLabel defaulting to String and ix to the empty list
LeafTextRule ==
  /\ leafOut[1].locals.val = LeafExpectedVal
  /\ leafProps.formatXLabel = None => leafOut[1].locals.contentX = String(LeafExpectedVal)
  /\ leafOut[1].drawn.label # None =>
       leafOut[1].drawn.label[1].text = leafOut[1].locals.contentX

\* C10 as stated: the text rule, and a label whose value is undefined is still
\* drawn whenever its measured width is not zero.
C10_UndefinedStillDrawn ==
  leafOut # None =>
    /\ LeafTextRule
    /\ (leafOut[1].locals.val = UndefV /\ leafOut[1].locals.labelWidth # 0)
         => leafOut[1].drawn.label # None

\* C10 amended: the text rule, and a label whose value is undefined is drawn
\* under the conditions of every other label: a font is supplied, the measured
\* width is not zero and, in XAxis.tsx, the label fits the chart
\* (canFitLabelContent; part_000 makes no fit test).
C10_UndefinedDrawnLikeAnyLabel ==
  leafOut # None =>
    LET x == Apply(leafProps.xScale, leafProps.tick)
        w == leafOut[1].locals.labelWidth
        fits == /\ x >= leafProps.chartBounds.left
                /\ x <= leafProps.chartBounds.right
                /\ IF leafProps.yAxisSide \in {None, Some("left")}
                   THEN (x - w \div 2) + w < leafProps.chartBounds.right
                   ELSE leafProps.chartBounds.left < x - w \div 2
    IN  /\ LeafTextRule
        /\ (leafProps.font = None) => (w = 0)
        /\ (leafOut[1].drawn.label # None)
             <=> (leafProps.font # None /\ w # 0 /\ (leafImpl = "tsx" => fits))

\* C10 witness: non-numerical data, a tick outside ix, and the label
\* "undefined" drawn
C10_Witness ==
  /\ leafOut # None
  /\ ~ leafProps.isNumericalData
  /\ leafProps.ix # None
  /\ leafProps.tick >= Len(leafProps.ix[1])
  /\ leafOut[1].locals.val = UndefV
  /\ leafOut[1].drawn.label # None
  /\ leafOut[1].drawn.label[1].text = <<"u", "n", "d", "e", "f", "i", "n", "e", "d">>

====
